---------------------------- MODULE Spec2Model ----------------------------
(***************************************************************************)
(* Model of src/topo_order_commits.py: the pipeline topo_order_commits()   *)
(* runs, from the branch list and the loose-object store to the text       *)
(* written on standard output.                                             *)
(*                                                                         *)
(*   build_commit_graph  worklist traversal of the object store            *)
(*   topo_sort           Kahn's algorithm, children before parents         *)
(*   ordered_print       the segmented rendering                           *)
(*                                                                         *)
(* Text is a sequence of tokens: a hash, a branch name, a word, " ", "\n"  *)
(* or "=".  Standard output is the token sequence out.                     *)
(* A Python dict is a sequence in insertion order; a Python set is a TLA+  *)
(* set, and every iteration over one enumerates it in an arbitrary order   *)
(* (the order of a set of str depends on the process's hash seed).         *)
(***************************************************************************)
EXTENDS Naturals, Sequences, FiniteSets

\* ------------------------------------------------------------------ bounds

\* The most parent declarations one commit object carries.
MaxParents == 2

\* The most branches (ref files) the repository holds.
MaxBranches == 2

\* The longest order handed to ordered_print on its own.
MaxOrder == 4

\* The commit hashes of the model (hexadecimal strings).
Hashes == {"a1", "b2", "c3"}

\* The hashes of the larger repositories, from the newest commit to the
\* oldest: an object can only name hashes that existed when it was written.
History == <<"a1", "b2", "c3", "d4">>

\* The branch names of the model, with the code points of their characters.
BranchNames == {"dev", "main"}

CodePoints(name) ==
  CASE name = "dev"  -> <<100, 101, 118>>
    [] name = "main" -> <<109, 97, 105, 110>>
    [] OTHER         -> <<>>

\* ----------------------------------------------------------------- helpers

\* Every enumeration of the finite set S: the orders a Python set can be
\* iterated in.
Perms(S) ==
  {s \in [1..Cardinality(S) -> S] : \A i, j \in DOMAIN s : i # j => s[i] # s[j]}

\* The sequences over S without repetition, of length at most n.
DistinctSeqs(S, n) ==
  UNION {Perms(T) : T \in {U \in SUBSET S : Cardinality(U) <= n}}

Front(s) == SubSeq(s, 1, Len(s) - 1)

Last(s) == s[Len(s)]

RECURSIVE Flatten(_)
Flatten(ss) == IF ss = <<>> THEN <<>> ELSE Head(ss) \o Flatten(Tail(ss))

VARIABLES
  objects,            \* .git/objects: hash -> [exists, valid, lines]
  branches_list,      \* get_branches(): sequence of <<name, head hash>>
  pc,                 \* the place of the run in topo_order_commits()
  commit_graph,       \* dict hash -> CommitNode, in insertion order
  visited,            \* build_commit_graph: visited
  hashes_to_process,  \* build_commit_graph: the worklist (a stack)
  indegree,           \* topo_sort: indegree
  q,                  \* topo_sort: the ready queue
  result,             \* topo_sort: result
  topo_order_list,    \* what topo_sort returned
  head_to_branches,   \* dict head hash -> list of branch names
  idx,                \* ordered_print: 1 + the loop index i
  printed_commits,    \* ordered_print: printed_commits
  jump,               \* ordered_print: jump
  out,                \* standard output, the tokens written so far
  commit_pos          \* history: per element of the order walked so far, the
                      \* place in out of the hash line 241 printed (0: skipped)

vars == <<objects, branches_list, pc, commit_graph, visited, hashes_to_process,
          indegree, q, result, topo_order_list, head_to_branches, idx,
          printed_commits, jump, out, commit_pos>>

\* ------------------------------------------------------------ object store

\* A loose commit object declaring the parents ps, with the message msg, as
\* the lines decompress_git_object() returns: the header, a blank line, the
\* lines of the message.
CommitObjectWithMessage(ps, msg) ==
  [exists |-> TRUE,
   valid  |-> TRUE,
   lines  |-> <<<<"tree", "t0">>>>
              \o [k \in 1..Len(ps) |-> <<"parent", ps[k]>>]
              \o <<<<"author", "x">>, <<>>>> \o msg]

CommitObject(ps) == CommitObjectWithMessage(ps, <<<<"msg">>>>)

\* No file under .git/objects for the hash.
MissingObject == [exists |-> FALSE, valid |-> FALSE, lines |-> <<>>]

\* A file that is there and is no zlib stream of UTF-8 text (truncated,
\* overwritten): zlib.decompress or decode raises.
CorruptObject == [exists |-> TRUE, valid |-> FALSE, lines |-> <<>>]

\* What decompress_git_object returns for a missing file.
None == [found |-> FALSE, raised |-> FALSE, lines |-> <<>>]

\* decompress_git_object left by an exception line 78 does not catch.
Raised == [found |-> FALSE, raised |-> TRUE, lines |-> <<>>]

\* decompress_git_object: the lines of the object; None when open() raises
\* FileNotFoundError; any other exception (zlib.error, UnicodeDecodeError)
\* leaves the function.
decompress_git_object(commit_hash) ==
  IF ~objects[commit_hash].exists THEN None
  ELSE IF ~objects[commit_hash].valid THEN Raised
  ELSE [found |-> TRUE, raised |-> FALSE, lines |-> objects[commit_hash].lines]

\* '\n'.join(contents): the tokens of the lines, a " " between the words of
\* a line and a "\n" between lines.
RECURSIVE JoinWith(_, _)
JoinWith(sep, ss) ==
  IF ss = <<>> THEN <<>>
  ELSE IF Len(ss) = 1 THEN Head(ss)
  ELSE Head(ss) \o <<sep>> \o JoinWith(sep, Tail(ss))

Words(line) == JoinWith(" ", [k \in DOMAIN line |-> <<line[k]>>])

JoinLines(contents) == JoinWith("\n", [k \in DOMAIN contents |-> Words(contents[k])])

\* [0-9a-f]+ : the tokens made of hexadecimal digits only.
IsHex(tok) == tok \in Hashes \cup {History[k] : k \in DOMAIN History}

\* re.findall(r'parent ([0-9a-f]+)', contents_str): left to right, without
\* overlap, the hexadecimal run that follows each "parent ".
RECURSIVE FindallParents(_)
FindallParents(toks) ==
  IF Len(toks) < 3 THEN <<>>
  ELSE IF toks[1] = "parent" /\ toks[2] = " " /\ IsHex(toks[3])
       THEN <<toks[3]>> \o FindallParents(SubSeq(toks, 4, Len(toks)))
       ELSE FindallParents(Tail(toks))

\* ------------------------------------------------------------- CommitNode

CommitNode(commit_hash) ==
  [commit_hash |-> commit_hash, parents |-> {}, children |-> {}]

Keys(graph) == {graph[k].commit_hash : k \in DOMAIN graph}

KeyList(graph) == [k \in DOMAIN graph |-> graph[k].commit_hash]

IndexOf(graph, h) == CHOOSE k \in DOMAIN graph : graph[k].commit_hash = h

Node(graph, h) == graph[IndexOf(graph, h)]

\* if h not in commit_graph: commit_graph[h] = CommitNode(h)
EnsureNode(graph, h) ==
  IF h \in Keys(graph) THEN graph ELSE Append(graph, CommitNode(h))

add_parent(graph, h, parent_commit) ==
  [graph EXCEPT ![IndexOf(graph, h)].parents = @ \cup {parent_commit}]

add_child(graph, h, child_commit) ==
  [graph EXCEPT ![IndexOf(graph, h)].children = @ \cup {child_commit}]

\* ----------------------------------------------------- build_commit_graph

\* NodeOnVisit with the node made only once the object was read.
NodeOnVisitIfFound(graph, curr_hash) ==
  IF objects[curr_hash].exists THEN EnsureNode(graph, curr_hash) ELSE graph

\* Lines 149-150: the node of the hash being visited.
NodeOnVisit(graph, curr_hash) == EnsureNode(graph, curr_hash)

\* LinkParent without line 168: the parent never learns of its child.
LinkParentOneWay(graph, curr_hash, parent_hash) ==
  add_parent(EnsureNode(graph, parent_hash), curr_hash, parent_hash)

\* Lines 164-169: the node of the parent, then the edge in both directions.
LinkParent(graph, curr_hash, parent_hash) ==
  add_parent(add_child(EnsureNode(graph, parent_hash), parent_hash, curr_hash),
             curr_hash, parent_hash)

\* ForEachParent with lines 164-169 moved under the test of line 162: a
\* parent that was visited before is not linked.
RECURSIVE ForEachUnseenParent(_, _, _, _)
ForEachUnseenParent(parent_hashes, curr_hash, seen, st) ==
  IF parent_hashes = <<>> THEN st
  ELSE LET parent_hash == Head(parent_hashes)
       IN ForEachUnseenParent(Tail(parent_hashes), curr_hash, seen,
            IF parent_hash \notin seen
            THEN [work  |-> Append(st.work, parent_hash),
                  graph |-> LinkParent(st.graph, curr_hash, parent_hash)]
            ELSE st)

\* Lines 161-169, the loop over parent_hashes, on st = [work, graph].
RECURSIVE ForEachParent(_, _, _, _)
ForEachParent(parent_hashes, curr_hash, seen, st) ==
  IF parent_hashes = <<>> THEN st
  ELSE LET parent_hash == Head(parent_hashes)
           work == IF parent_hash \notin seen
                   THEN Append(st.work, parent_hash)
                   ELSE st.work
       IN ForEachParent(Tail(parent_hashes), curr_hash, seen,
                        [work  |-> work,
                         graph |-> LinkParent(st.graph, curr_hash, parent_hash)])

\* VisitMissing with the node of the unreadable hash taken out of the graph.
VisitMissingDropsNode(graph, curr_hash, rest) ==
  [work  |-> rest,
   graph |-> SelectSeq(graph, LAMBDA n : n.commit_hash # curr_hash)]

\* Lines 155-156: contents is None; the iteration ends, the graph and the
\* worklist stay as they are.
VisitMissing(graph, curr_hash, rest) == [work |-> rest, graph |-> graph]

\* Line 147: visited.add(curr_hash).
MarkVisited(seen, curr_hash) == seen \cup {curr_hash}

\* RemoveAt that moves the element at place k to the front and removes nothing.
MoveToFront(s, k) == <<s[k]>> \o SubSeq(s, 1, k - 1) \o SubSeq(s, k + 1, Len(s))

\* The list without its element at place k.
RemoveAt(s, k) == SubSeq(s, 1, k - 1) \o SubSeq(s, k + 1, Len(s))

\* Lines 140-169: one iteration of the worklist loop, which takes the hash
\* at place k of the worklist (pop() takes the last).
BuildIteration(k) ==
  /\ pc = "build"
  /\ hashes_to_process # <<>>
  /\ LET curr_hash == hashes_to_process[k]
         rest      == RemoveAt(hashes_to_process, k)
     IN IF curr_hash \in visited
        THEN /\ hashes_to_process' = rest
             /\ UNCHANGED <<visited, commit_graph, pc>>
        ELSE LET seen     == MarkVisited(visited, curr_hash)
                 graph1   == NodeOnVisit(commit_graph, curr_hash)
                 contents == decompress_git_object(curr_hash)
             IN /\ visited' = seen
                /\ IF contents = Raised
                   THEN \* the exception leaves build_commit_graph and
                        \* topo_order_commits: the run ends with a traceback
                        /\ commit_graph' = graph1
                        /\ hashes_to_process' = rest
                        /\ pc' = "raised"
                   ELSE IF contents = None
                   THEN LET st == VisitMissing(graph1, curr_hash, rest)
                        IN /\ commit_graph' = st.graph
                           /\ hashes_to_process' = st.work
                           /\ pc' = pc
                   ELSE LET parent_hashes == FindallParents(JoinLines(contents.lines))
                            st == ForEachParent(parent_hashes, curr_hash, seen,
                                                [work |-> rest, graph |-> graph1])
                        IN /\ commit_graph' = st.graph
                           /\ hashes_to_process' = st.work
                           /\ pc' = pc
  /\ UNCHANGED <<objects, branches_list, indegree, q, result,
                 topo_order_list, head_to_branches, idx, printed_commits,
                 jump, out, commit_pos>>

\* Line 142: curr_hash = hashes_to_process.pop().
BuildStep == BuildIteration(Len(hashes_to_process))

\* --------------------------------------------------------------- topo_sort

\* Lines 193-195: one increment of indegree[parent_hash] for each entry of
\* node.parents, node by node.
RECURSIVE CountParents(_, _)
CountParents(parent_hashes, deg) ==
  IF parent_hashes = <<>> THEN deg
  ELSE CountParents(Tail(parent_hashes),
                    [deg EXCEPT ![Head(parent_hashes)] = @ + 1])

RECURSIVE CountNodes(_, _)
CountNodes(nodes, deg) ==
  IF nodes = <<>> THEN deg
  ELSE CountNodes(Tail(nodes),
                  CountParents(CHOOSE ps \in Perms(Head(nodes).parents) : TRUE, deg))

\* InitialIndegree counting, for each node, its own parents.
IndegreeFromOwnParents(commit_nodes) ==
  [h \in Keys(commit_nodes) |-> Cardinality(Node(commit_nodes, h).parents)]

\* Lines 190-195.
InitialIndegree(commit_nodes) ==
  CountNodes(commit_nodes, [h \in Keys(commit_nodes) |-> 0])

\* Line 198: the hashes of degree 0, in the order of the dict.
ReadyQueue(commit_nodes, deg) ==
  SelectSeq(KeyList(commit_nodes), LAMBDA h : deg[h] = 0)

\* BecomesReady without the test of line 208.
BecomesReadyEarly(deg, parent_hash) == TRUE

\* Lines 208-209: whether the parent whose count was just decremented is
\* appended to the queue.
BecomesReady(deg, parent_hash) == deg[parent_hash] = 0

\* Lines 206-209, the loop over the parents of the dequeued node, on
\* st = [deg, queue].
RECURSIVE ForEachDecrement(_, _)
ForEachDecrement(parent_hashes, st) ==
  IF parent_hashes = <<>> THEN st
  ELSE LET parent_hash == Head(parent_hashes)
           deg == [st.deg EXCEPT ![parent_hash] = @ - 1]
       IN ForEachDecrement(Tail(parent_hashes),
                           [deg   |-> deg,
                            queue |-> IF BecomesReady(deg, parent_hash)
                                      THEN Append(st.queue, parent_hash)
                                      ELSE st.queue])

\* Line 174 and lines 190-199: build_commit_graph returns, topo_sort sets up
\* indegree, q and result.
TopoInit ==
  /\ pc = "build"
  /\ hashes_to_process = <<>>
  /\ indegree' = InitialIndegree(commit_graph)
  /\ q' = ReadyQueue(commit_graph, indegree')
  /\ result' = <<>>
  /\ pc' = "sort"
  /\ UNCHANGED <<objects, branches_list, commit_graph, visited,
                 hashes_to_process, topo_order_list, head_to_branches, idx,
                 printed_commits, jump, out, commit_pos>>

\* Lines 201-209: one iteration of the main loop.
TopoStep ==
  /\ pc = "sort"
  /\ q # <<>>
  /\ LET commit_hash == Head(q)
     IN /\ result' = Append(result, commit_hash)
        /\ \E parent_hashes \in Perms(Node(commit_graph, commit_hash).parents) :
             LET st == ForEachDecrement(parent_hashes,
                                        [deg |-> indegree, queue |-> Tail(q)])
             IN /\ indegree' = st.deg
                /\ q' = st.queue
  /\ UNCHANGED <<objects, branches_list, pc, commit_graph, visited,
                 hashes_to_process, topo_order_list, head_to_branches, idx,
                 printed_commits, jump, out, commit_pos>>

\* CycleDetected with the comparison turned: a short result passes.
CycleDetectedIfLonger(res, commit_nodes) == Len(res) > Len(commit_nodes)

\* Line 211: the test that reports a cycle.
CycleDetected(res, commit_nodes) == Len(res) # Len(commit_nodes)

\* Lines 211-215: the loop has ended; "Cycle" is printed and [] returned, or
\* the result is returned.
TopoReturn ==
  /\ pc = "sort"
  /\ q = <<>>
  /\ IF CycleDetected(result, commit_graph)
     THEN /\ out' = out \o <<"Cycle", "\n">>
          /\ topo_order_list' = <<>>
     ELSE /\ out' = out
          /\ topo_order_list' = result
  /\ pc' = "index"
  /\ UNCHANGED <<objects, branches_list, commit_graph, visited,
                 hashes_to_process, indegree, q, result, head_to_branches,
                 idx, printed_commits, jump, commit_pos>>

\* ------------------------------------------------------- head_to_branches

\* Lines 408-411, one branch: the name is appended to the list of its head.
AppendBranch(h2b, branch, head_commit) ==
  IF head_commit \notin DOMAIN h2b
  THEN [h \in DOMAIN h2b \cup {head_commit} |->
          IF h = head_commit THEN <<branch>> ELSE h2b[h]]
  ELSE [h2b EXCEPT ![head_commit] = Append(@, branch)]

\* Lines 407-411.
RECURSIVE BuildHeadToBranches(_, _)
BuildHeadToBranches(bl, h2b) ==
  IF bl = <<>> THEN h2b
  ELSE BuildHeadToBranches(Tail(bl), AppendBranch(h2b, Head(bl)[1], Head(bl)[2]))

HeadToBranches ==
  /\ pc = "index"
  /\ head_to_branches' = BuildHeadToBranches(branches_list, <<>>)
  /\ pc' = "print"
  /\ UNCHANGED <<objects, branches_list, commit_graph, visited,
                 hashes_to_process, indegree, q, result, topo_order_list,
                 idx, printed_commits, jump, out, commit_pos>>

\* ----------------------------------------------------------- ordered_print

\* The order of Python's str comparison: code point by code point, a proper
\* prefix first.
RECURSIVE LexLess(_, _)
LexLess(a, b) ==
  IF b = <<>> THEN FALSE
  ELSE IF a = <<>> THEN TRUE
  ELSE IF Head(a) # Head(b) THEN Head(a) < Head(b)
  ELSE LexLess(Tail(a), Tail(b))

StrLess(x, y) == LexLess(CodePoints(x), CodePoints(y))

\* sorted(names): a stable sort, here by insertion.
RECURSIVE Insert(_, _)
Insert(x, sorted) ==
  IF sorted = <<>> THEN <<x>>
  ELSE IF StrLess(x, Head(sorted)) THEN <<x>> \o sorted
  ELSE <<Head(sorted)>> \o Insert(x, Tail(sorted))

RECURSIVE sorted(_)
sorted(names) ==
  IF names = <<>> THEN <<>>
  ELSE Insert(Last(names), sorted(Front(names)))

\* Lines 237-240: print("=", end=""), then print(child) for each child.
StickyStart(child_hashes) ==
  <<"=">> \o Flatten([k \in DOMAIN child_hashes |-> <<child_hashes[k], "\n">>])

\* Lines 241-247: the hash, the sorted branch names if any, the line end.
CommitLine(commit, h2b) ==
  <<commit>>
  \o (IF commit \in DOMAIN h2b
      THEN <<" ">> \o JoinWith(" ", [k \in DOMAIN h2b[commit] |->
                                       <<sorted(h2b[commit])[k]>>])
      ELSE <<>>)
  \o <<"\n">>

\* Lines 267-272: print(parent, end=" ") for each parent, print(),
\* print("="), print().
StickyEnd(parent_hashes) ==
  Flatten([k \in DOMAIN parent_hashes |-> <<parent_hashes[k], " ">>])
  \o <<"\n">> \o <<"=", "\n">> \o <<"\n">>

\* ReturnsAfter without the early return of lines 253-254.
NeverReturnsAfter(k, order) == FALSE

\* Lines 252-254: whether the loop returns after the line of the commit at
\* place k of the order.
ReturnsAfter(k, order) == k = Len(order)

\* Lines 252 and 257-260: the hash after place k of the order, or None.
NextCommitHash(k, order) == IF k + 1 <= Len(order) THEN order[k + 1] ELSE "None"

\* NotAParent with the test of line 263 always true.
BreaksAlways(next_commit_hash, curr_node) == TRUE

\* NotAParent testing the children set instead of the parents.
NotAChild(next_commit_hash, curr_node) == next_commit_hash \notin curr_node.children

\* Line 263: next_commit_hash not in parent_hashes.
NotAParent(next_commit_hash, curr_node) == next_commit_hash \notin curr_node.parents

\* AlreadyPrinted without the guard of lines 230-231.
NeverAlreadyPrinted(commit, printed) == FALSE

\* Line 230: commit in printed_commits.
AlreadyPrinted(commit, printed) == commit \in printed

\* Lines 227-272: one iteration of the loop over topo_ordered_commits.
PrintStep ==
  /\ pc = "print"
  /\ idx <= Len(topo_order_list)
  /\ LET commit    == topo_order_list[idx]
         curr_node == Node(commit_graph, commit)
     IN IF AlreadyPrinted(commit, printed_commits)
        THEN /\ idx' = idx + 1
             /\ commit_pos' = Append(commit_pos, 0)
             /\ UNCHANGED <<pc, printed_commits, jump, out>>
        ELSE \E child_hashes \in Perms(curr_node.children),
                parent_hashes \in Perms(curr_node.parents) :
               LET start == IF jump THEN StickyStart(child_hashes) ELSE <<>>
                   line  == CommitLine(commit, head_to_branches)
               IN /\ printed_commits' = printed_commits \cup {commit}
                  /\ commit_pos' = Append(commit_pos, Len(out) + Len(start) + 1)
                  /\ IF ReturnsAfter(idx, topo_order_list)
                     THEN /\ out' = out \o start \o line
                          /\ jump' = FALSE
                          /\ idx' = idx
                          /\ pc' = "done"
                     ELSE LET next_commit_hash == NextCommitHash(idx, topo_order_list)
                          IN /\ IF NotAParent(next_commit_hash, curr_node)
                                THEN /\ jump' = TRUE
                                     /\ out' = out \o start \o line
                                                   \o StickyEnd(parent_hashes)
                                ELSE /\ jump' = FALSE
                                     /\ out' = out \o start \o line
                             /\ idx' = idx + 1
                             /\ pc' = "print"
  /\ UNCHANGED <<objects, branches_list, commit_graph, visited,
                 hashes_to_process, indegree, q, result, topo_order_list,
                 head_to_branches>>

\* Line 227: the loop ends with no element left (an empty order).
PrintExit ==
  /\ pc = "print"
  /\ idx > Len(topo_order_list)
  /\ pc' = "done"
  /\ UNCHANGED <<objects, branches_list, commit_graph, visited,
                 hashes_to_process, indegree, q, result, topo_order_list,
                 head_to_branches, idx, printed_commits, jump, out, commit_pos>>

\* ------------------------------------------------------------------- Init

ParentLists == DistinctSeqs(Hashes, MaxParents)

ObjectStores ==
  [Hashes -> {MissingObject} \cup {CommitObject(ps) : ps \in ParentLists}]

\* get_branches(): the ref files in the order os.walk() lists them; a name
\* is a path, so no two branches share one.
BranchLists ==
  {bl \in UNION {[1..n -> BranchNames \X Hashes] : n \in 0..MaxBranches} :
     \A i, j \in DOMAIN bl : i # j => bl[i][1] # bl[j][1]}

\* Line 138: the branch heads, in the order of branches_list.
BranchHeads(bl) == [k \in DOMAIN bl |-> bl[k][2]]

Init ==
  /\ objects \in ObjectStores
  /\ branches_list \in BranchLists
  /\ pc = "build"
  /\ commit_graph = <<>>
  /\ visited = {}
  /\ hashes_to_process = BranchHeads(branches_list)
  /\ indegree = <<>>
  /\ q = <<>>
  /\ result = <<>>
  /\ topo_order_list = <<>>
  /\ head_to_branches = <<>>
  /\ idx = 1
  /\ printed_commits = {}
  /\ jump = FALSE
  /\ out = <<>>
  /\ commit_pos = <<>>

Next ==
  \/ BuildStep
  \/ TopoInit
  \/ TopoStep
  \/ TopoReturn
  \/ HeadToBranches
  \/ PrintStep
  \/ PrintExit

Spec == Init /\ [][Next]_vars

\* ============================================================ properties

\* The parent edges of the graph, followed n times from the set S.
RECURSIVE ParentsWithin(_, _, _)
ParentsWithin(graph, S, n) ==
  IF n = 0 THEN S
  ELSE ParentsWithin(graph,
                     S \cup UNION {Node(graph, h).parents : h \in S \cap Keys(graph)},
                     n - 1)

\* The proper ancestors of h under the parent relation of the graph.
Ancestors(graph, h) ==
  ParentsWithin(graph, Node(graph, h).parents, Len(graph))

HasCycle(graph) == \E h \in Keys(graph) : h \in Ancestors(graph, h)

\* The parents the object of h declares (empty when there is no object).
DeclaredParents(h) ==
  LET found == FindallParents(JoinLines(objects[h].lines))
  IN {found[k] : k \in DOMAIN found}

Seeds == {branches_list[k][2] : k \in DOMAIN branches_list}

Returned == pc \in {"index", "print", "done"}

Built == pc # "build"

\* C1: for an acyclic graph built by build_commit_graph, topo_sort returns
\* every key of the graph exactly once and nothing else, each commit before
\* each of its parents.
C1_TopologicalOrder ==
  (Returned /\ ~HasCycle(commit_graph)) =>
     /\ Len(topo_order_list) = Len(commit_graph)
     /\ {topo_order_list[k] : k \in DOMAIN topo_order_list} = Keys(commit_graph)
     /\ \A i, j \in DOMAIN topo_order_list :
          /\ (i # j => topo_order_list[i] # topo_order_list[j])
          /\ (topo_order_list[j] \in Node(commit_graph, topo_order_list[i]).parents
                => i < j)

\* A merge commit and its two parents, sorted.
C1_Witness ==
  /\ pc = "done"
  /\ ~HasCycle(commit_graph)
  /\ Len(topo_order_list) = 3
  /\ \E h \in Keys(commit_graph) : Cardinality(Node(commit_graph, h).parents) = 2

\* C2: at the end of every worklist iteration and in the returned graph, the
\* ends of every edge are nodes, and B is a parent of A exactly when A is a
\* child of B.
C2_BidirectionalEdges ==
  /\ \A a \in Keys(commit_graph) :
       Node(commit_graph, a).parents \cup Node(commit_graph, a).children
         \subseteq Keys(commit_graph)
  /\ \A a, b \in Keys(commit_graph) :
       b \in Node(commit_graph, a).parents <=> a \in Node(commit_graph, b).children

\* In the middle of a build, a node with two parents recorded.
C2_Witness ==
  /\ pc = "build"
  /\ hashes_to_process # <<>>
  /\ \E a \in Keys(commit_graph) : Cardinality(Node(commit_graph, a).parents) = 2

\* C3: every branch head is a key of the graph build_commit_graph returns.
C3_SeedsAreKeys == Built => Seeds \subseteq Keys(commit_graph)

\* Two seeds, the second a declared parent of the first, with no object of
\* its own.
C3_Witness ==
  /\ Built
  /\ Len(branches_list) = 2
  /\ branches_list[1][2] # branches_list[2][2]
  /\ branches_list[2][2] \in DeclaredParents(branches_list[1][2])
  /\ ~objects[branches_list[2][2]].exists

\* C4: topo_sort returns an order as long as the graph has nodes, or, exactly
\* when the parent relation has a cycle, prints the marker and returns the
\* empty order, so that the marker is all that is ever printed; every hash
\* it looks up in indegree is a key.
C4_FullOrderOrCycle ==
  /\ \A a \in Keys(commit_graph) :
       Node(commit_graph, a).parents \subseteq Keys(commit_graph)
  /\ Returned =>
       IF HasCycle(commit_graph)
       THEN topo_order_list = <<>> /\ out = <<"Cycle", "\n">>
       ELSE /\ Len(topo_order_list) = Len(commit_graph)
            /\ \A k \in DOMAIN out : out[k] # "Cycle"

\* A cycle behind a commit that was sorted: the partial result is dropped.
C4_Witness ==
  /\ pc = "done"
  /\ HasCycle(commit_graph)
  /\ result # <<>>
  /\ topo_order_list = <<>>

\* The hash the next worklist iteration pops has not been visited and has
\* no object.
PopsMissing ==
  /\ pc = "build"
  /\ hashes_to_process # <<>>
  /\ Last(hashes_to_process) \notin visited
  /\ ~objects[Last(hashes_to_process)].exists

\* C9: a hash whose object is missing does not stop the build: its node stays
\* in the graph with no parents and with the children the visited commits
\* that declare it gave it, and its iteration only shortens the worklist; a
\* single missing seed gives the graph of that one node, with no parents and
\* no children.
C9_MissingObjectIsDeadEnd ==
  /\ [](\A h \in visited :
          ~objects[h].exists =>
            /\ h \in Keys(commit_graph)
            /\ Node(commit_graph, h).parents = {}
            /\ Node(commit_graph, h).children =
                 {c \in visited : h \in DeclaredParents(c)})
  /\ []((Built /\ Len(branches_list) = 1 /\ ~objects[branches_list[1][2]].exists)
          => commit_graph = <<CommitNode(branches_list[1][2])>>)
  /\ [][PopsMissing =>
          /\ pc' = "build"
          /\ hashes_to_process' = Front(hashes_to_process)
          /\ Last(hashes_to_process) \in Keys(commit_graph')]_vars

\* A missing hash that two visited commits declare as their parent.
C9_Witness ==
  /\ Built
  /\ \E h \in visited :
       /\ ~objects[h].exists
       /\ Cardinality(Node(commit_graph, h).children) = 2

\* ---------------------------------------------- reading standard output

\* The place of the line end that closes the line holding place p of out.
LineEnd(p) == CHOOSE e \in p..Len(out) :
                 out[e] = "\n" /\ \A m \in p..(e - 1) : out[m] # "\n"

\* The place where the line holding place p of out starts.
LineStart(p) == CHOOSE b \in 1..p :
                  /\ b = 1 \/ out[b - 1] = "\n"
                  /\ \A m \in b..(p - 1) : out[m] # "\n"

\* The line of out that holds the hash printed for place k of the order.
CommitLineAt(k) ==
  SubSeq(out, LineStart(commit_pos[k]), LineEnd(commit_pos[k]) - 1)

\* What was printed after the line of place k of the order.
After(k) == SubSeq(out, LineEnd(commit_pos[k]) + 1, Len(out))

\* What was printed between the line of place k and the hash of place k + 1.
Gap(k) == SubSeq(out, LineEnd(commit_pos[k]) + 1, commit_pos[k + 1] - 1)

\* The places of the order whose iteration has run.
Walked == DOMAIN commit_pos

NodeAt(k) == Node(commit_graph, topo_order_list[k])

\* Place k of the order is followed by a commit that is not its parent.
BreakAfter(k) ==
  /\ k < Len(topo_order_list)
  /\ topo_order_list[k + 1] \notin NodeAt(k).parents

\* The tokens hold a terminator marker that ends its line, a blank line,
\* and later an opener marker.
IsSegmentBreak(toks) ==
  \E i, j \in DOMAIN toks :
    /\ toks[i] = "="
    /\ i + 2 < j
    /\ toks[i + 1] = "\n"
    /\ toks[i + 2] = "\n"
    /\ toks[j] = "="

\* The hashes of hs on one line, a single space between them.
SpaceSeparated(hs) == JoinWith(" ", [k \in DOMAIN hs |-> <<hs[k]>>])

\* C5: for each consecutive pair of the order, nothing is printed between
\* the two commit lines when the second is a parent of the first, and a
\* segment break (terminator marker, blank line, opener marker) is printed
\* when it is not.
C5_BreakIffNotParent ==
  \A k \in Walked :
    /\ commit_pos[k] > 0
    /\ (k + 1 \in Walked) =>
         IF topo_order_list[k + 1] \in NodeAt(k).parents
         THEN Gap(k) = <<>>
         ELSE IsSegmentBreak(Gap(k))

\* An order of three printed, the first pair contiguous, the second not.
C5_Witness ==
  /\ pc = "done"
  /\ Len(topo_order_list) = 3
  /\ Walked = 1..3
  /\ ~BreakAfter(1)
  /\ BreakAfter(2)

\* C6: at every segment break, what follows the commit line is one
\* terminator line, the parents of the commit separated by single spaces
\* with "=" right after them (a bare "=" without parents), and then one
\* blank line.
C6_TerminatorLine ==
  \A k \in Walked :
    BreakAfter(k) =>
      \E parent_hashes \in Perms(NodeAt(k).parents) :
        LET terminator == SpaceSeparated(parent_hashes) \o <<"=", "\n">> \o <<"\n">>
        IN /\ Len(After(k)) >= Len(terminator)
           /\ SubSeq(After(k), 1, Len(terminator)) = terminator
           /\ Len(After(k)) > Len(terminator)
                => After(k)[Len(terminator) + 1] \notin {"\n"}

\* C7: after every segment break inside the order, the line before the
\* commit line of the next commit is the opener: "=", the hash of that
\* commit, its children separated by single spaces; the commit line of
\* that hash follows on a line of its own.
C7_OpenerLine ==
  \A k \in Walked :
    (BreakAfter(k) /\ k + 1 \in Walked) =>
      \E child_hashes \in Perms(NodeAt(k + 1).children) :
        LET opener == <<"=">>
                      \o SpaceSeparated(<<topo_order_list[k + 1]>> \o child_hashes)
                      \o <<"\n">>
        IN /\ Len(Gap(k)) >= Len(opener)
           /\ SubSeq(Gap(k), Len(Gap(k)) - Len(opener) + 1, Len(Gap(k))) = opener
           /\ LineStart(commit_pos[k + 1]) = commit_pos[k + 1]

\* C8 as stated: after the line of the last commit of a non-empty order the
\* renderer closes the segment as it closes any other, parents, marker and
\* blank line, and prints no opener.
C8_LastCommitClosesSegment ==
  (pc = "done" /\ topo_order_list # <<>>) =>
     \E parent_hashes \in Perms(NodeAt(Len(topo_order_list)).parents) :
       After(Len(topo_order_list)) = StickyEnd(parent_hashes)

\* C8 as amended: the line of the last commit of a non-empty order is the
\* end of the output; no terminator, blank line or opener follows it.
C8_LastCommitLineEndsOutput ==
  (pc = "done" /\ topo_order_list # <<>>) =>
     /\ Walked = DOMAIN topo_order_list
     /\ commit_pos[Len(topo_order_list)] > 0
     /\ After(Len(topo_order_list)) = <<>>
     /\ ~jump

\* Three commits printed with a break between two of them, and the run over.
C8_Witness ==
  /\ pc = "done"
  /\ Len(topo_order_list) = 3
  /\ \E k \in 1..2 : BreakAfter(k)
  /\ out[Len(out)] = "\n"
  /\ out[Len(out) - 1] = topo_order_list[3]

\* The names of the branches whose head is h, in ascending order.
SortedBranchesOf(h) ==
  LET names == {branches_list[k][1] : k \in {m \in DOMAIN branches_list :
                                               branches_list[m][2] = h}}
  IN CHOOSE s \in Perms(names) :
       \A i, j \in DOMAIN s : i < j => StrLess(s[i], s[j])

\* The hash h, then a space and a name for each branch at h, in order.
ExpectedCommitLine(h) ==
  <<h>> \o Flatten([k \in DOMAIN SortedBranchesOf(h) |->
                      <<" ", SortedBranchesOf(h)[k]>>])

\* C10: the line of every commit is its hash followed by the names of the
\* branches whose head it is, sorted and separated by single spaces, and
\* nothing else, whatever the order the branches were listed in.
C10_CommitLine ==
  \A k \in Walked :
    commit_pos[k] > 0 => CommitLineAt(k) = ExpectedCommitLine(topo_order_list[k])

\* What C10 leaves true of the code: from the hash to the end of its line,
\* the line is the expected commit line.
CommitLineFromHash ==
  \A k \in Walked :
    commit_pos[k] > 0 =>
      SubSeq(out, commit_pos[k], LineEnd(commit_pos[k]) - 1)
        = ExpectedCommitLine(topo_order_list[k])

\* ------------------------------------------------- C11 .. C20: vocabulary

\* One enumeration of the set S, the same one wherever S is enumerated: a
\* set whose iteration order is fixed.
FixedOrder(S) == CHOOSE s \in Perms(S) : TRUE

\* Lines 201-209 run to the end of the loop, every parents set iterated in
\* its fixed order.
RECURSIVE KahnLoop(_, _, _, _)
KahnLoop(commit_nodes, deg, queue, res) ==
  IF queue = <<>> THEN res
  ELSE LET st == ForEachDecrement(FixedOrder(Node(commit_nodes, Head(queue)).parents),
                                  [deg |-> deg, queue |-> Tail(queue)])
       IN KahnLoop(commit_nodes, st.deg, st.queue, Append(res, Head(queue)))

\* topo_sort(commit_nodes) with every parents set iterated in its fixed order.
TopoSortFixedOrder(commit_nodes) ==
  LET deg == InitialIndegree(commit_nodes)
      res == KahnLoop(commit_nodes, deg, ReadyQueue(commit_nodes, deg), <<>>)
  IN IF CycleDetected(res, commit_nodes) THEN <<>> ELSE res

\* C11: the order topo_sort returns is a function of the object store and
\* the seeds alone: whatever order the sets are iterated in, it is the order
\* the run with the fixed iteration orders returns.
C11_OrderIsDeterministic ==
  Returned => topo_order_list = TopoSortFixedOrder(commit_graph)

\* ------------------------------------------- a repository of four commits

HistoryHashes == {History[k] : k \in DOMAIN History}

\* The hashes written before the one at place k of History: the only ones
\* its object can name.
OlderHashes(k) == {History[m] : m \in (k + 1)..Len(History)}

\* The objects the hash at place k of History can have: none, or a commit
\* whose parents are older.
HistoryObjectsAt(k) ==
  {MissingObject} \cup {CommitObject(ps) : ps \in DistinctSeqs(OlderHashes(k), MaxParents)}

PlaceInHistory(h) == CHOOSE k \in DOMAIN History : History[k] = h

HistoryStores ==
  {[h \in HistoryHashes |-> t[PlaceInHistory(h)]] :
     t \in HistoryObjectsAt(1) \X HistoryObjectsAt(2)
           \X HistoryObjectsAt(3) \X HistoryObjectsAt(4)}

\* get_branches() over the heads H, as BranchLists.
BranchListsOver(H) ==
  {bl \in UNION {[1..n -> BranchNames \X H] : n \in 0..MaxBranches} :
     \A i, j \in DOMAIN bl : i # j => bl[i][1] # bl[j][1]}

\* The start of topo_order_commits() on the store st with the branches bl.
RunFrom(st, bl) ==
  /\ objects = st
  /\ branches_list = bl
  /\ pc = "build"
  /\ commit_graph = <<>>
  /\ visited = {}
  /\ hashes_to_process = BranchHeads(bl)
  /\ indegree = <<>>
  /\ q = <<>>
  /\ result = <<>>
  /\ topo_order_list = <<>>
  /\ head_to_branches = <<>>
  /\ idx = 1
  /\ printed_commits = {}
  /\ jump = FALSE
  /\ out = <<>>
  /\ commit_pos = <<>>

InitRepo ==
  \E st \in HistoryStores, bl \in BranchListsOver(HistoryHashes) : RunFrom(st, bl)

\* The pipeline on the repositories of four commits.
SpecRepo == InitRepo /\ [][Next]_vars

\* C12: the output is a function of the graph, the order and the branch
\* index alone: whatever order the parents and children sets are iterated
\* in, every break is the one the fixed iteration orders print.
C12_OutputIsDeterministic ==
  \A k \in Walked :
    (BreakAfter(k) /\ k + 1 \in Walked) =>
      Gap(k) = StickyEnd(FixedOrder(NodeAt(k).parents))
               \o StickyStart(FixedOrder(NodeAt(k + 1).children))

\* -------------------------------- a store with damaged and wordy objects

\* The messages of the model: a plain one, one with the word parent and no
\* hash after it, and one that quotes "parent <hash>" for each hash of hs.
Messages(hs) ==
  {<<<<"msg">>>>, <<<<"see", "parent", "commit">>>>}
  \cup {<<<<"revert", "parent", h>>>> : h \in hs}

\* The objects the hash at place k of History can have: none, a damaged
\* file, or a commit whose header and message name older hashes of Hashes.
LooseObjectsAt(k) ==
  {MissingObject, CorruptObject}
  \cup {CommitObjectWithMessage(ps, msg) :
          ps \in DistinctSeqs(OlderHashes(k) \cap Hashes, MaxParents),
          msg \in Messages(OlderHashes(k) \cap Hashes)}

LooseStores ==
  {[h \in Hashes |-> t[PlaceInHistory(h)]] :
     t \in LooseObjectsAt(1) \X LooseObjectsAt(2) \X LooseObjectsAt(3)}

InitStore ==
  \E st \in LooseStores, bl \in BranchListsOver(Hashes) : RunFrom(st, bl)

\* The pipeline on the stores with damaged objects and quoting messages.
SpecStore == InitStore /\ [][Next]_vars

\* C13: decompress_git_object never lets an exception out: whatever the
\* state of the object files, the run is never ended by one.
C13_ReaderNeverRaises == pc # "raised"

\* The lines of the header: those before the first empty line.
RECURSIVE HeaderLines(_)
HeaderLines(lines) ==
  IF lines = <<>> \/ Head(lines) = <<>> THEN <<>>
  ELSE <<Head(lines)>> \o HeaderLines(Tail(lines))

\* The parents the header of the object of h declares (none when the object
\* is missing or damaged).
HeaderParents(h) ==
  LET hdr == HeaderLines(objects[h].lines)
  IN {hdr[k][2] : k \in {m \in DOMAIN hdr : Len(hdr[m]) = 2 /\ hdr[m][1] = "parent"}}

\* The hashes reached from the set S by header parents, n times.
RECURSIVE HeaderClosure(_, _)
HeaderClosure(S, n) ==
  IF n = 0 THEN S
  ELSE HeaderClosure(S \cup UNION {HeaderParents(h) : h \in S}, n - 1)

\* C20: the parents recorded for a visited commit are the parents its header
\* declares, and every node is a seed or is reached from one by header
\* parents: the text of a message makes no edge and no node.
C20_EdgesFromHeaderOnly ==
  /\ \A h \in visited \cap Keys(commit_graph) :
       Node(commit_graph, h).parents = HeaderParents(h)
  /\ Keys(commit_graph) \subseteq HeaderClosure(Seeds, Cardinality(Hashes))

\* The store and the branches are a linear history along the hashes of c:
\* one branch, at c[1]; each commit of c declares the next one as its only
\* parent, and the last one declares none.
IsLinearHistory(c) ==
  /\ Len(c) >= 1
  /\ Len(branches_list) = 1
  /\ branches_list[1][2] = c[1]
  /\ \A i \in DOMAIN c :
       /\ objects[c[i]].exists
       /\ objects[c[i]].valid
       /\ DeclaredParents(c[i]) = (IF i < Len(c) THEN {c[i + 1]} ELSE {})

\* The output expected for the linear history c: the line of c[1] with the
\* name of the branch, then one line with the hash alone for each older one.
LinearOutput(c) ==
  <<c[1], " ", branches_list[1][1], "\n">>
  \o Flatten([k \in 1..(Len(c) - 1) |-> <<c[k + 1], "\n">>])

\* C14: for a linear history c[1] -> ... -> c[n] with one branch at c[1],
\* the finished run has sorted the commits as c and has printed n lines,
\* the first with the branch name, and no "=" and no blank line.
C14_LinearHistory ==
  (pc = "done" /\ Len(branches_list) = 1) =>
    \A c \in DistinctSeqs(DOMAIN objects, Cardinality(DOMAIN objects)) :
      IsLinearHistory(c) =>
         /\ topo_order_list = c
         /\ out = LinearOutput(c)
         /\ \A p \in DOMAIN out : out[p] # "="
         /\ \A p \in DOMAIN out : (out[p] = "\n" /\ p > 1) => out[p - 1] # "\n"
         /\ Cardinality({p \in DOMAIN out : out[p] = "\n"}) = Len(c)

\* The finished run on the linear history of all four hashes.
C14_Witness ==
  /\ pc = "done"
  /\ IsLinearHistory(History)
  /\ Len(out) > 2 * Len(History)

\* Place k of the order holds a merge commit of two parents, one of them at
\* place k + 1 and the other at the later place j.
MergeAt(k, j) ==
  /\ k + 1 \in Walked
  /\ j \in Walked
  /\ j > k + 1
  /\ Cardinality(NodeAt(k).parents) = 2
  /\ NodeAt(k).parents = {topo_order_list[k + 1], topo_order_list[j]}

\* The hashes among the tokens toks.
HashesIn(toks) == {toks[i] : i \in DOMAIN toks} \cap DOMAIN objects

\* The tokens of toks before its first "=", and those after its last "=".
BeforeMarks(toks) ==
  SubSeq(toks, 1, (CHOOSE i \in DOMAIN toks :
                     toks[i] = "=" /\ \A m \in 1..(i - 1) : toks[m] # "=") - 1)

AfterMarks(toks) ==
  SubSeq(toks, (CHOOSE i \in DOMAIN toks :
                  toks[i] = "=" /\ \A m \in (i + 1)..Len(toks) : toks[m] # "=") + 1,
         Len(toks))

\* C15, as stated: a merge commit whose first parent is printed right after it
\* and whose second parent is printed later is followed by a segment break.
C15_BreakAfterMerge ==
  \A k, j \in Walked : MergeAt(k, j) => IsSegmentBreak(Gap(k))

\* C15, as the renderer behaves: nothing is printed between the line of the
\* merge commit and the line of the parent that follows it; the other parent
\* is preceded by a segment break exactly when the commit printed before it
\* is not one of its children, and that break lists the parents of that
\* commit before the markers and the children of the parent after them.
C15_MergeThenParent ==
  \A k, j \in Walked :
    MergeAt(k, j) =>
      /\ Gap(k) = <<>>
      /\ IF topo_order_list[j] \in NodeAt(j - 1).parents
         THEN Gap(j - 1) = <<>>
         ELSE /\ IsSegmentBreak(Gap(j - 1))
              /\ HashesIn(BeforeMarks(Gap(j - 1))) = NodeAt(j - 1).parents
              /\ HashesIn(AfterMarks(Gap(j - 1))) = NodeAt(j).children

\* A finished run with a merge commit, its first parent right after it, and
\* before its second parent a break that lists parents of another commit.
C15_Witness ==
  /\ pc = "done"
  /\ \E k, j \in Walked :
       /\ MergeAt(k, j)
       /\ BreakAfter(j - 1)
       /\ NodeAt(j - 1).parents # {}
       /\ NodeAt(j - 1).parents # NodeAt(k).parents

\* ------------------------------------------------- the worklist loop alone

\* Line 140, while hashes_to_process: an iteration can run.
BuildStepEnabled == pc = "build" /\ hashes_to_process # <<>>

\* build_commit_graph on its own: the loop of lines 140-169 runs as long as
\* the worklist is not empty, so an iteration that can run does run. This
\* is WF_vars(BuildStep) with ENABLED BuildStep written as the loop test.
SpecBuild ==
  /\ Init
  /\ [][BuildStep]_vars
  /\ ([]<>(~BuildStepEnabled) \/ []<><<BuildStep>>_vars)

\* C16: build_commit_graph terminates, whatever the store (cycles among the
\* parent references included) and whatever the seeds (repeated ones
\* included): the worklist is empty at some point and stays empty.
C16_BuildTerminates == <>[](hashes_to_process = <<>>)

\* The worklist has emptied on a store whose parent references form a cycle,
\* from two seeds that are the same hash.
C16_Witness ==
  /\ hashes_to_process = <<>>
  /\ HasCycle(commit_graph)
  /\ Len(branches_list) = 2
  /\ branches_list[1][2] = branches_list[2][2]

\* ----------------------------------------- the worklist in any order

\* build_commit_graph with the hash taken from any place of the worklist.
AnyRemoval == \E k \in DOMAIN hashes_to_process : BuildIteration(k)

\* The worklist loop, in any order, on the repositories of four commits.
SpecAnyRemoval == InitRepo /\ [][AnyRemoval]_vars

\* The hashes reached from the set S by the parent table dp, n times.
RECURSIVE DeclaredClosure(_, _, _)
DeclaredClosure(dp, S, n) ==
  IF n = 0 THEN S
  ELSE DeclaredClosure(dp, S \cup UNION {dp[h] : h \in S}, n - 1)

\* The graph the store and the seeds determine, as a set of nodes.
DeterminedGraph ==
  LET dp    == [h \in DOMAIN objects |-> DeclaredParents(h)]
      nodes == DeclaredClosure(dp, Seeds, Cardinality(DOMAIN objects))
  IN {[commit_hash |-> h,
       parents     |-> dp[h],
       children    |-> {c \in nodes : h \in dp[c]}] : h \in nodes}

\* C17: whatever places the hashes were taken from, once the worklist is
\* empty the graph has the nodes, parents and children that the store and
\* the seeds determine, each node once.
C17_RemovalOrderIrrelevant ==
  (pc = "build" /\ hashes_to_process = <<>>) =>
     /\ {commit_graph[k] : k \in DOMAIN commit_graph} = DeterminedGraph
     /\ Len(commit_graph) = Cardinality(DeterminedGraph)

\* The worklist has emptied after hashes were taken in an order pop() does
\* not take them in: the first seed was visited first, of two seeds of which
\* the second is an ancestor of the first, in a graph of three nodes.
C17_Witness ==
  /\ pc = "build"
  /\ hashes_to_process = <<>>
  /\ Len(branches_list) = 2
  /\ Len(commit_graph) = 3
  /\ commit_graph[1].commit_hash = branches_list[1][2]
  /\ branches_list[2][2] \in Ancestors(commit_graph, branches_list[1][2])
  /\ branches_list[2][2] # branches_list[1][2]

\* ------------------------------------------------ the counts of topo_sort

\* The hashes of the sequence s.
Range(s) == {s[k] : k \in DOMAIN s}

\* The children of n that have not been appended to the result.
PendingChildren(n) ==
  {c \in Keys(commit_graph) :
     n \in Node(commit_graph, c).parents /\ c \notin Range(result)}

\* C18: between the iterations of the main loop of topo_sort, the count of
\* every node is the number of its children not yet in the result and is
\* never negative; the nodes of the queue and of the result have no such
\* child left, and none of them is there twice.
C18_IndegreeCountsPendingChildren ==
  pc = "sort" =>
    /\ \A n \in Keys(commit_graph) :
         /\ indegree[n] = Cardinality(PendingChildren(n))
         /\ indegree[n] >= 0
    /\ \A n \in Range(q) \cup Range(result) : PendingChildren(n) = {}
    /\ Cardinality(Range(q \o result)) = Len(q) + Len(result)

\* Between two iterations: one child of a node of two children is in the
\* result, the other waits in the queue, and the node still counts one.
C18_Witness ==
  /\ pc = "sort"
  /\ Len(result) >= 1
  /\ q # <<>>
  /\ \E n \in Keys(commit_graph) :
       /\ Cardinality(Node(commit_graph, n).children) = 2
       /\ indegree[n] = 1

\* ------------------------------------------------ ordered_print on its own

\* The graphs of commits a1, b2, c3 whose parents are older commits.
RenderParents ==
  {P \in [1..Cardinality(Hashes) -> SUBSET Hashes] :
     \A k \in DOMAIN P : /\ P[k] \subseteq OlderHashes(k)
                         /\ Cardinality(P[k]) <= MaxParents}

RenderGraph(P) ==
  [k \in DOMAIN P |->
     [commit_hash |-> History[k],
      parents     |-> P[k],
      children    |-> {History[m] : m \in {i \in DOMAIN P : History[k] \in P[i]}}]]

\* The orders ordered_print can be called with: any list of hashes of the
\* graph, repetitions included.
RenderOrders == UNION {[1..n -> Hashes] : n \in 0..MaxOrder}

\* A call ordered_print(commit_graph, order, head_to_branches).
InitRender ==
  \E P \in RenderParents, order \in RenderOrders, bl \in BranchLists :
    /\ objects = [h \in Hashes |-> CommitObject(FixedOrder(P[PlaceInHistory(h)]))]
    /\ branches_list = bl
    /\ pc = "print"
    /\ commit_graph = RenderGraph(P)
    /\ visited = Hashes
    /\ hashes_to_process = <<>>
    /\ indegree = <<>>
    /\ q = <<>>
    /\ result = <<>>
    /\ topo_order_list = order
    /\ head_to_branches = BuildHeadToBranches(bl, <<>>)
    /\ idx = 1
    /\ printed_commits = {}
    /\ jump = FALSE
    /\ out = <<>>
    /\ commit_pos = <<>>

NextRender == PrintStep \/ PrintExit

SpecRender == InitRender /\ [][NextRender]_vars

\* Place k of the order is the first one that holds its hash.
FirstOccurrence(k) ==
  \A m \in 1..(k - 1) : topo_order_list[m] # topo_order_list[k]

\* The iteration about to run is on a hash that an earlier place holds.
AtRepeat ==
  /\ pc = "print"
  /\ idx <= Len(topo_order_list)
  /\ ~FirstOccurrence(idx)

\* C19: whatever the order, a place of it gets a commit line exactly when it
\* is the first place of its hash, so that once the renderer is done every
\* hash of the order has one commit line; and the iteration on a later place
\* of a hash prints nothing.
C19_OneLinePerHash ==
  /\ [](\A k \in Walked :
          /\ (commit_pos[k] > 0) <=> FirstOccurrence(k)
          /\ commit_pos[k] > 0 =>
               /\ out[commit_pos[k]] = topo_order_list[k]
               /\ commit_pos[k] = 1 \/ out[commit_pos[k] - 1] \in {"\n", "="})
  /\ [](pc = "done" =>
          \A h \in Range(topo_order_list) :
            Cardinality({k \in Walked : topo_order_list[k] = h
                                        /\ commit_pos[k] > 0}) = 1)
  /\ [][AtRepeat => out' = out]_vars

\* The renderer is done with an order in which a hash comes back after
\* another one and is followed by a third.
C19_Witness ==
  /\ pc = "done"
  /\ Len(topo_order_list) = 4
  /\ topo_order_list[3] = topo_order_list[1]
  /\ topo_order_list[2] # topo_order_list[1]
  /\ commit_pos[3] = 0
  /\ commit_pos[4] > 0

=============================================================================
